---- MODULE Spec2Model ----
(***************************************************************************)
(* A model of the Render workbench code:                                   *)
(*   renderers/Cycles.py  - the scene writers (write_camera, write_object, *)
(*                          write_pointlight, write_arealight) and render  *)
(*   Render/base.py       - BaseFeature (create, property set-up),         *)
(*                          BaseViewProvider (onChanged, updateData) and   *)
(*                          PointableFeatureMixin.point_at                 *)
(*                                                                         *)
(* Text that the code builds by concatenation or joins is a sequence of    *)
(* one-character strings, so that it can be split again into tokens.       *)
(* Identifiers (object names) are TLA+ strings.  A Python float is a       *)
(* decimal fixed-point number, kept as its count of tenths (0.5 is 5).     *)
(***************************************************************************)
EXTENDS Integers, Sequences, FiniteSets, TLC

VARIABLES
    prefs,      \* the preference store "BaseApp/Preferences/Mod/Render"
    call,       \* the call: operation and arguments
    pc,         \* "ready" before the call is made, "done" once it returned
    ret,        \* what the call returned (or raised)
    console,    \* what the call printed on App.Console
    executed,   \* the commands the call passed to os.system
    documents,  \* document name -> sequence of the objects it holds
    active,     \* App.ActiveDocument: a document name, or NoDocument
    recomputed, \* the documents the call recomputed
    handled     \* the handler methods the call invoked, with their argument

vars ==
    <<prefs, call, pc, ret, console, executed, documents, active, recomputed,
      handled>>

baseVars == <<documents, active, recomputed, handled>>

-----------------------------------------------------------------------------
(* Bounds *)

MaxDim == 11        \* width and height range over 1..MaxDim
MaxVerts == 3       \* vertices of a mesh
MaxFaces == 2       \* faces of a mesh
MaxPower == 25      \* light power, in tenths
MaxObjects == 2     \* objects per document
MaxAngle == 12      \* rotation angles range over 0..MaxAngle twelfths of pi

-----------------------------------------------------------------------------
(* Text *)

SP == " "

Digits == <<"0", "1", "2", "3", "4", "5", "6", "7", "8", "9">>

RECURSIVE StrNat(_)
\* str(n) of a Python int n >= 0
StrNat(n) ==
    IF n < 10 THEN <<Digits[n + 1]>>
    ELSE StrNat(n \div 10) \o <<Digits[(n % 10) + 1]>>

\* str(n) of a Python int
StrInt(n) == IF n < 0 THEN <<"-">> \o StrNat(-n) ELSE StrNat(n)

Abs(n) == IF n < 0 THEN -n ELSE n

\* "{}".format(x) of a Python float x (given as its count of tenths)
StrFloat(t) ==
    (IF t < 0 THEN <<"-">> ELSE <<>>)
        \o StrNat(Abs(t) \div 10) \o <<".">> \o <<Digits[(Abs(t) % 10) + 1]>>

RECURSIVE Join(_, _)
\* sep.join(parts)
Join(sep, parts) ==
    IF parts = <<>> THEN <<>>
    ELSE IF Len(parts) = 1 THEN parts[1]
    ELSE parts[1] \o sep \o Join(sep, Tail(parts))

RECURSIVE SplitFrom(_, _, _)
SplitFrom(s, i, cur) ==
    IF i > Len(s) THEN (IF cur = <<>> THEN <<>> ELSE <<cur>>)
    ELSE IF s[i] = SP
         THEN (IF cur = <<>> THEN <<>> ELSE <<cur>>) \o SplitFrom(s, i + 1, <<>>)
         ELSE SplitFrom(s, i + 1, Append(cur, s[i]))

\* the words of a command line, as the shell splits it on blanks
Tokens(s) == SplitFrom(s, 1, <<>>)

-----------------------------------------------------------------------------
(* Cycles.render *)

OptOutput == <<" ", "-", "-", "o", "u", "t", "p", "u", "t", " ">>
OptBackground == <<" ", "-", "-", "b", "a", "c", "k", "g", "r", "o", "u", "n", "d">>
OptWidth == <<" ", "-", "-", "w", "i", "d", "t", "h", " ">>
OptHeight == <<" ", "-", "-", "h", "e", "i", "g", "h", "t", " ">>

ErrNoRenderer ==
    [kind |-> "Error",
     text |-> "Unable to locate renderer executable. Please set the correct path in Edit -> Preferences -> Render"]

\* params.GetString(key, "")
GetString(store, key) == store[key]

\* the prefix render puts in front of the executable path
render_prefix(store, prefix) ==
    LET p == GetString(store, "Prefix")
    IN  IF p # <<>> THEN p \o <<SP>> ELSE p

render_args_swapped(store, external, output, width, height) ==
    GetString(store, "CyclesParameters") \o OptOutput \o output
        \o (IF ~external THEN OptBackground ELSE <<>>)
        \o OptHeight \o StrInt(height) \o OptWidth \o StrInt(width)

\* the argument string render assembles
render_args(store, external, output, width, height) ==
    GetString(store, "CyclesParameters") \o OptOutput \o output
        \o (IF ~external THEN OptBackground ELSE <<>>)
        \o OptWidth \o StrInt(width) \o OptHeight \o StrInt(height)

\* the command line render passes to os.system
render_cmd(store, project, prefix, external, output, width, height) ==
    render_prefix(store, prefix) \o GetString(store, "CyclesPath") \o <<SP>>
        \o render_args(store, external, output, width, height)
        \o <<SP>> \o project.PageResult

render_runs_anyway(store, project, prefix, external, output, width, height, status) ==
    LET cmd == render_cmd(store, project, prefix, external, output, width, height)
    IN  IF GetString(store, "CyclesPath") = <<>>
        THEN [ret |-> <<>>, console |-> <<ErrNoRenderer>>, executed |-> <<cmd>>]
        ELSE [ret |-> output,
              console |-> <<[kind |-> "Message", text |-> cmd \o <<"\n">>]>>,
              executed |-> <<cmd>>]

render_checks_status(store, project, prefix, external, output, width, height, status) ==
    IF GetString(store, "CyclesPath") = <<>>
    THEN [ret |-> <<>>, console |-> <<ErrNoRenderer>>, executed |-> <<>>]
    ELSE LET cmd == render_cmd(store, project, prefix, external, output,
                               width, height)
         IN  [ret |-> IF status = 0 THEN output ELSE <<>>,
              console |-> <<[kind |-> "Message", text |-> cmd \o <<"\n">>]>>,
              executed |-> <<cmd>>]

\* render: the value returned, the console output and the commands run;
\* status is the exit status os.system reports for the command
render(store, project, prefix, external, output, width, height, status) ==
    IF GetString(store, "CyclesPath") = <<>>
    THEN [ret |-> <<>>, console |-> <<ErrNoRenderer>>, executed |-> <<>>]
    ELSE LET cmd == render_cmd(store, project, prefix, external, output,
                               width, height)
         IN  [ret |-> output,
              console |-> <<[kind |-> "Message", text |-> cmd \o <<"\n">>]>>,
              executed |-> <<cmd>>]

-----------------------------------------------------------------------------
(* Geometry, as FreeCAD's Vector and Rotation give it.  Coordinates are    *)
(* floats (tenths); a rotation is its 3x3 matrix, rows of integers.        *)

Vector(x, y, z) == [x |-> x, y |-> y, z |-> z]

\* Rotation.multVec(v)
multVec(rot, v) ==
    Vector(rot[1][1] * v.x + rot[1][2] * v.y + rot[1][3] * v.z,
           rot[2][1] * v.x + rot[2][2] * v.y + rot[2][3] * v.z,
           rot[3][1] * v.x + rot[3][2] * v.y + rot[3][3] * v.z)

\* Vector.cross(other); the product of two floats in tenths is in hundredths
cross(a, b) ==
    Vector((a.y * b.z - a.z * b.y) \div 10,
           (a.z * b.x - a.x * b.z) \div 10,
           (a.x * b.y - a.y * b.x) \div 10)

\* math.degrees(x); x is an angle in radians given as its count of twelfths
\* of pi, the result is a float (tenths of a degree)
degrees(x) == (x * 1800) \div 12

-----------------------------------------------------------------------------
(* Scene text.  A snippet is the sequence of its top-level XML elements;   *)
(* attribute values built by format() are text.                            *)

El(tag, attrs, children) == [tag |-> tag, attrs |-> attrs, children |-> children]

Comment(text) == El("#comment", [text |-> text], <<>>)

\* "{0.x} {0.y} {0.z}".format(v)
StrVector(v) == Join(<<SP>>, <<StrFloat(v.x), StrFloat(v.y), StrFloat(v.z)>>)

\* Cycles.write_camera
write_camera_radians(pos, rot, updir, target, name) ==
    <<Comment("Generated by FreeCAD - Camera '" \o name \o "'"),
      El("transform",
         [rotate |-> Join(<<SP>>, <<StrFloat(rot.Angle * 10), StrFloat(rot.Axis.x),
                                    StrFloat(rot.Axis.y), StrFloat(rot.Axis.z)>>),
          translate |-> StrVector(pos),
          scale |-> <<"1", " ", "1", " ", "-", "1">>],
         <<El("camera", [type |-> "perspective"], <<>>)>>)>>

write_camera(pos, rot, updir, target, name) ==
    <<Comment("Generated by FreeCAD - Camera '" \o name \o "'"),
      El("transform",
         [rotate |-> Join(<<SP>>, <<StrFloat(degrees(rot.Angle)), StrFloat(rot.Axis.x),
                                    StrFloat(rot.Axis.y), StrFloat(rot.Axis.z)>>),
          translate |-> StrVector(pos),
          scale |-> <<"1", " ", "1", " ", "-", "1">>],
         <<El("camera", [type |-> "perspective"], <<>>)>>)>>

\* snippet1 + (snippet2a if alpha < 1 else snippet2b): the shader element
object_shader_inclusive(n, c, alpha) ==
    El("shader", [name |-> n \o "_mat"],
       <<El("diffuse_bsdf",
            [name |-> n \o "_bsdf",
             color |-> Join(<<",", SP>>, <<StrFloat(c[1]), StrFloat(c[2]), StrFloat(c[3])>>)],
            <<>>)>>
       \o (IF alpha <= 10
           THEN <<El("transparent_bsdf",
                     [name |-> n \o "_trans",
                      color |-> <<"1", ".", "0", ",", " ", "1", ".", "0", ",", " ", "1", ".", "0">>],
                     <<>>),
                  El("mix_closure", [name |-> n \o "_mix", fac |-> StrFloat(alpha)], <<>>),
                  El("connect", [from |-> n \o "_trans bsdf", to |-> n \o "_mix closure1"], <<>>),
                  El("connect", [from |-> n \o "_bsdf bsdf", to |-> n \o "_mix closure2"], <<>>),
                  El("connect", [from |-> n \o "_mix closure", to |-> "output surface"], <<>>)>>
           ELSE <<El("connect", [from |-> n \o "_bsdf bsdf", to |-> "output surface"], <<>>)>>))

object_shader(n, c, alpha) ==
    El("shader", [name |-> n \o "_mat"],
       <<El("diffuse_bsdf",
            [name |-> n \o "_bsdf",
             color |-> Join(<<",", SP>>, <<StrFloat(c[1]), StrFloat(c[2]), StrFloat(c[3])>>)],
            <<>>)>>
       \o (IF alpha < 10
           THEN <<El("transparent_bsdf",
                     [name |-> n \o "_trans",
                      color |-> <<"1", ".", "0", ",", " ", "1", ".", "0", ",", " ", "1", ".", "0">>],
                     <<>>),
                  El("mix_closure", [name |-> n \o "_mix", fac |-> StrFloat(alpha)], <<>>),
                  El("connect", [from |-> n \o "_trans bsdf", to |-> n \o "_mix closure1"], <<>>),
                  El("connect", [from |-> n \o "_bsdf bsdf", to |-> n \o "_mix closure2"], <<>>),
                  El("connect", [from |-> n \o "_mix closure", to |-> "output surface"], <<>>)>>
           ELSE <<El("connect", [from |-> n \o "_bsdf bsdf", to |-> "output surface"], <<>>)>>))

\* the points, nverts and verts lists and the mesh element of snippet3;
\* mesh.Topology is the pair (vertices, faces)
object_mesh_one_based(n, mesh) ==
    LET points == [i \in 1..Len(mesh.Topology[1]) |-> StrVector(mesh.Topology[1][i])]
        verts == [i \in 1..Len(mesh.Topology[2]) |->
                    LET v == mesh.Topology[2][i]
                    IN  Join(<<SP>>, <<StrInt(v[1] + 1), StrInt(v[2] + 1), StrInt(v[3] + 1)>>)]
        nverts == [i \in 1..Len(verts) |-> <<"3">>]
    IN  El("state", [shader |-> n \o "_mat"],
           <<El("mesh",
                [P |-> Join(<<SP, SP>>, points),
                 nverts |-> Join(<<SP, SP>>, nverts),
                 verts |-> Join(<<SP, SP>>, verts)],
                <<>>)>>)

object_mesh(n, mesh) ==
    LET points == [i \in 1..Len(mesh.Topology[1]) |-> StrVector(mesh.Topology[1][i])]
        verts == [i \in 1..Len(mesh.Topology[2]) |->
                    LET v == mesh.Topology[2][i]
                    IN  Join(<<SP>>, <<StrInt(v[1]), StrInt(v[2]), StrInt(v[3])>>)]
        nverts == [i \in 1..Len(verts) |-> <<"3">>]
    IN  El("state", [shader |-> n \o "_mat"],
           <<El("mesh",
                [P |-> Join(<<SP, SP>>, points),
                 nverts |-> Join(<<SP, SP>>, nverts),
                 verts |-> Join(<<SP, SP>>, verts)],
                <<>>)>>)

\* Cycles.write_object
write_object(viewobj, mesh, color, alpha) ==
    <<Comment("Generated by FreeCAD - Object '" \o viewobj.Name \o "'"),
      object_shader(viewobj.Name, color, alpha),
      object_mesh(viewobj.Name, mesh)>>

\* the emission shader both light writers emit, with strength s
emission_shader(n, c, s) ==
    El("shader", [name |-> n \o "_shader"],
       <<El("emission",
            [name |-> n \o "_emit",
             color |-> Join(<<SP>>, <<StrFloat(c[1]), StrFloat(c[2]), StrFloat(c[3])>>),
             strength |-> StrFloat(s)],
            <<>>),
         El("connect", [from |-> n \o "_emit emission", to |-> "output surface"], <<>>)>>)

\* s=power*100 of write_pointlight
pointlight_strength(power) == power * 100

\* Cycles.write_pointlight
write_pointlight(view, location, color, power) ==
    <<Comment("Generated by FreeCAD - Pointlight '" \o view.Name \o "'"),
      emission_shader(view.Name, color, pointlight_strength(power)),
      El("state", [shader |-> view.Name \o "_shader"],
         <<El("light",
              [type |-> "point", co |-> StrVector(location),
               strength |-> <<"1", " ", "1", " ", "1">>],
              <<>>)>>)>>

arealight_axes_flipped(rot) ==
    LET axis1 == multVec(rot, Vector(10, 0, 0))
        axis2 == multVec(rot, Vector(0, 10, 0))
    IN  [u |-> axis1, v |-> axis2, d |-> cross(axis2, axis1)]

\* axis1, axis2 and direction of write_arealight
arealight_axes(rot) ==
    LET axis1 == multVec(rot, Vector(10, 0, 0))
        axis2 == multVec(rot, Vector(0, 10, 0))
    IN  [u |-> axis1, v |-> axis2, d |-> cross(axis1, axis2)]

arealight_strength_tenfold(power) == power * 10

\* s=power*100 of write_arealight
arealight_strength(power) == power * 100

\* Cycles.write_arealight
write_arealight(name, pos, size_u, size_v, color, power) ==
    LET ax == arealight_axes(pos.Rotation)
    IN  <<Comment("Generated by FreeCAD - Area light '" \o name \o "'"),
          emission_shader(name, color, arealight_strength(power)),
          El("state", [shader |-> name \o "_shader"],
             <<El("light",
                  [type |-> "area", co |-> StrVector(pos.Base),
                   strength |-> <<"1", " ", "1", " ", "1">>,
                   axisu |-> StrVector(ax.u), axisv |-> StrVector(ax.v),
                   sizeu |-> StrFloat(size_u), sizev |-> StrFloat(size_v),
                   size |-> <<"1">>,
                   dir |-> StrVector(ax.d)],
                  <<>>)>>)>>

-----------------------------------------------------------------------------
(* Inputs *)

NoDocument == "None"
DocumentNames == {"Doc1", "Doc2"}

PrefixValues == {<<>>, <<"n", "i", "c", "e">>}
PathValues == {<<>>, <<"/", "b", "/", "c", "y">>}
ParameterValues == {<<>>, <<"-", "s", " ", "4">>}
PrefixArgs == {<<>>, <<"t", "i", "m", "e">>}
Outputs == {<<"o", ".", "p", "n", "g">>, <<"/", "t", "/", "i">>}
Projects == {[PageResult |-> <<"s", ".", "x", "m", "l">>]}
Dims == {1, MaxDim}
ExitStatuses == {0, 1}

Names == {"Box"}
ViewObjects == [Name : Names]
Colors == {<<8, 8, 8>>}
Alphas == {0, 5, 10}
Points == {Vector(10, 0, 0), Vector(0, 10, -5)}
Powers == 0..MaxPower
Sizes == {20}

\* the meshes: up to MaxVerts vertices and up to MaxFaces triangles whose
\* corners are distinct valid vertex indices (counted from 0); a triangle is
\* listed from its lowest corner, in either orientation
Triangles(nv) ==
    {t \in [1..3 -> 0..(nv - 1)] : t[1] < t[2] /\ t[1] < t[3] /\ t[2] # t[3]}

Meshes ==
    UNION {UNION {{[Topology |-> <<vs, fs>>] :
                      vs \in [1..nv -> Points], fs \in [1..nf -> Triangles(nv)]} :
                  nf \in 0..MaxFaces} :
           nv \in 0..MaxVerts}

Cos4 == <<1, 0, -1, 0>>
Sin4 == <<0, 1, 0, -1>>

\* App.Rotation(axis, angle) for a coordinate axis and k quarter turns
RotationAbout(axis, k) ==
    LET c == Cos4[k + 1]
        sn == Sin4[k + 1]
    IN  CASE axis = "X" -> <<<<1, 0, 0>>, <<0, c, -sn>>, <<0, sn, c>>>>
          [] axis = "Y" -> <<<<c, 0, sn>>, <<0, 1, 0>>, <<-sn, 0, c>>>>
          [] axis = "Z" -> <<<<c, -sn, 0>>, <<sn, c, 0>>, <<0, 0, 1>>>>

Rotations == {RotationAbout(a, k) : a \in {"X", "Y", "Z"}, k \in 0..3}
Placements == [Base : Points, Rotation : Rotations]
CameraAxes == {Vector(0, 0, 10), Vector(10, 0, 0), Vector(6, -8, 0)}
CameraRotations == [Axis : CameraAxes, Angle : 0..MaxAngle]

\* the store before any preference is set
NoPreferences ==
    [k \in {"Prefix", "CyclesPath", "CyclesParameters"} |-> <<>>]

PrefStores ==
    {[k \in {"Prefix", "CyclesPath", "CyclesParameters"} |->
        CASE k = "Prefix" -> p [] k = "CyclesPath" -> c [] OTHER -> a] :
        p \in PrefixValues, c \in PathValues, a \in ParameterValues}

-----------------------------------------------------------------------------
(* The Cycles module.  Its functions keep no state between calls (the      *)
(* preference store is only read), so a behaviour is one call: the         *)
(* arguments and the preferences are drawn initially, the step applies the *)
(* function.                                                               *)

RenderCalls ==
    [op : {"render"}, project : Projects, prefix : PrefixArgs,
     external : BOOLEAN, output : Outputs, width : Dims, height : Dims,
     status : ExitStatuses]

CameraCalls ==
    [op : {"write_camera"}, pos : Points, rot : CameraRotations,
     updir : {Vector(0, 0, 10)}, target : {Vector(0, 0, 0)}, name : Names]

ObjectCalls ==
    [op : {"write_object"}, viewobj : ViewObjects, mesh : Meshes,
     color : Colors, alpha : Alphas]

PointlightCalls ==
    [op : {"write_pointlight"}, view : ViewObjects, location : Points,
     color : Colors, power : Powers]

ArealightCalls ==
    [op : {"write_arealight"}, name : Names, pos : Placements,
     size_u : Sizes, size_v : Sizes, color : Colors, power : Powers]

\* only render reads the preferences
InitCycles ==
    /\ call \in RenderCalls \cup CameraCalls \cup ObjectCalls
                  \cup PointlightCalls \cup ArealightCalls
    /\ prefs \in (IF call.op = "render" THEN PrefStores ELSE {NoPreferences})
    /\ pc = "ready"
    /\ ret = <<>>
    /\ console = <<>>
    /\ executed = <<>>
    /\ documents = [d \in DocumentNames |-> <<>>]
    /\ active = NoDocument
    /\ recomputed = <<>>
    /\ handled = <<>>

Render ==
    /\ pc = "ready" /\ call.op = "render"
    /\ LET r == render(prefs, call.project, call.prefix, call.external,
                       call.output, call.width, call.height, call.status)
       IN  /\ ret' = r.ret
           /\ console' = r.console
           /\ executed' = r.executed
    /\ pc' = "done"
    /\ UNCHANGED <<prefs, call, baseVars>>

\* a writer returns its snippet; it prints nothing and runs nothing
Written(snippet) ==
    /\ ret' = snippet
    /\ pc' = "done"
    /\ UNCHANGED <<prefs, call, console, executed, baseVars>>

WriteCamera ==
    /\ pc = "ready" /\ call.op = "write_camera"
    /\ Written(write_camera(call.pos, call.rot, call.updir, call.target,
                            call.name))

WriteObject ==
    /\ pc = "ready" /\ call.op = "write_object"
    /\ Written(write_object(call.viewobj, call.mesh, call.color, call.alpha))

WritePointlight ==
    /\ pc = "ready" /\ call.op = "write_pointlight"
    /\ Written(write_pointlight(call.view, call.location, call.color,
                                call.power))

WriteArealight ==
    /\ pc = "ready" /\ call.op = "write_arealight"
    /\ Written(write_arealight(call.name, call.pos, call.size_u, call.size_v,
                               call.color, call.power))

NextCycles ==
    \/ Render
    \/ WriteCamera
    \/ WriteObject
    \/ WritePointlight
    \/ WriteArealight

SpecCycles == InitCycles /\ [][NextCycles]_vars

-----------------------------------------------------------------------------
(* Render/base.py: class hierarchies *)

\* Prop(Type, Group, Doc, Default, EditorMode=0)
Prop(type, group, doc, default) ==
    [Type |-> type, Group |-> group, Doc |-> doc, Default |-> default,
     EditorMode |-> 0]

\* vars(cls) of the classes of base.py a feature class inherits from, and of
\* four feature classes built on them: PointLight overrides everything it
\* must, Pointer takes its PROPERTIES from the mixin, Camera adds PROPERTIES
\* of its own to the mixin's, Bare overrides nothing.
ClassVars ==
    [InterfaceBaseFeature |->
        [VIEWPROVIDER |-> "", PROPERTIES |-> <<>>, NAMESPACE |-> "Render",
         TYPE |-> ""],
     BaseFeature |-> <<>>,
     PointableFeatureMixin |->
        [PROPERTIES |->
            [Placement |->
                Prop("App::PropertyPlacement", "Pointable", "Object placement",
                     [Base |-> Vector(0, 0, 0),
                      Rotation |-> RotationAbout("Z", 0)])]],
     PointLight |->
        [VIEWPROVIDER |-> "ViewProviderPointLight",
         PROPERTIES |->
            [Power |-> Prop("App::PropertyFloat", "Light", "Light power", 600)]],
     Pointer |-> [VIEWPROVIDER |-> "ViewProviderPointer", TYPE |-> "Target"],
     Camera |->
        [VIEWPROVIDER |-> "ViewProviderCamera",
         PROPERTIES |->
            [Projection |->
                Prop("App::PropertyEnumeration", "Camera", "Projection type",
                     "Perspective")]],
     Bare |-> <<>>,
     InterfaceBaseViewProvider |-> [ON_CHANGED |-> <<>>, ON_UPDATE |-> <<>>],
     BaseViewProvider |-> <<>>,
     PointableViewProviderMixin |-> <<>>,
     ViewProviderLight |->
        [ON_CHANGED |-> [Visibility |-> "on_visibility",
                         ShapeColor |-> "on_color"],
         ON_UPDATE |-> [Power |-> "on_power", Location |-> "on_location"]],
     ViewProviderPointLight |->
        [ON_CHANGED |-> [Visibility |-> "on_point_visibility"],
         ON_UPDATE |-> [Power |-> "on_point_power"]],
     ViewProviderPointer |-> <<>>,
     ViewProviderCamera |-> [ON_UPDATE |-> [Placement |-> "on_placement"]]]

\* cls.__mro__
Mro ==
    [PointLight |-> <<"PointLight", "BaseFeature", "InterfaceBaseFeature">>,
     Pointer |-> <<"Pointer", "PointableFeatureMixin", "BaseFeature",
                   "InterfaceBaseFeature">>,
     Camera |-> <<"Camera", "PointableFeatureMixin", "BaseFeature",
                  "InterfaceBaseFeature">>,
     Bare |-> <<"Bare", "BaseFeature", "InterfaceBaseFeature">>,
     ViewProviderLight |-> <<"ViewProviderLight", "BaseViewProvider",
                             "InterfaceBaseViewProvider">>,
     ViewProviderPointLight |-> <<"ViewProviderPointLight", "ViewProviderLight",
                                  "BaseViewProvider",
                                  "InterfaceBaseViewProvider">>,
     ViewProviderPointer |-> <<"ViewProviderPointer",
                               "PointableViewProviderMixin", "BaseViewProvider",
                               "InterfaceBaseViewProvider">>,
     ViewProviderCamera |-> <<"ViewProviderCamera",
                              "PointableViewProviderMixin", "BaseViewProvider",
                              "InterfaceBaseViewProvider">>]

FeatureClasses == {"PointLight", "Pointer", "Camera", "Bare"}

\* the view provider classes: ViewProviderLight declares handlers for its
\* subclasses, ViewProviderPointLight overrides two of them, ViewProviderCamera
\* declares ON_UPDATE only, ViewProviderPointer declares none
ViewProviderClasses ==
    {"ViewProviderLight", "ViewProviderPointLight", "ViewProviderPointer",
     "ViewProviderCamera"}

\* the methods each class defines (the handlers its mappings name)
Methods ==
    [c \in DOMAIN ClassVars |->
        CASE c = "ViewProviderLight" ->
                {"on_visibility", "on_color", "on_power", "on_location"}
          [] c = "ViewProviderPointLight" ->
                {"on_point_visibility", "on_point_power"}
          [] c = "ViewProviderCamera" -> {"on_placement"}
          [] OTHER -> {}]

\* hasattr(self, name), self an instance of cls
HasMethod(cls, name) ==
    \E i \in 1..Len(Mro[cls]) : name \in Methods[Mro[cls][i]]

\* the names sys.modules["Render"] defines
NamespaceAttrs ==
    {"ViewProviderPointLight", "ViewProviderPointer", "ViewProviderCamera"}

\* the properties a fresh App::FeaturePython object has
FreshProperties == {"Label", "Proxy", "Visibility"}

\* getattr(cls, attr_name): the first class of the MRO that declares it
GetAttr(cls, attr_name) ==
    LET i == CHOOSE i \in 1..Len(Mro[cls]) :
                /\ attr_name \in DOMAIN ClassVars[Mro[cls][i]]
                /\ \A j \in 1..(i - 1) :
                     attr_name \notin DOMAIN ClassVars[Mro[cls][j]]
    IN  ClassVars[Mro[cls][i]][attr_name]

\* dict.update
Update(res, attribute) ==
    [k \in DOMAIN res \cup DOMAIN attribute |->
        IF k \in DOMAIN attribute THEN attribute[k] ELSE res[k]]

RECURSIVE MergeFrom_mro_order(_, _, _)
MergeFrom_mro_order(cls, attr_name, i) ==
    IF i > Len(Mro[cls]) THEN <<>>
    ELSE LET c == Mro[cls][i]
             below == MergeFrom_mro_order(cls, attr_name, i + 1)
         IN  IF attr_name \in DOMAIN ClassVars[c]
             THEN Update(ClassVars[c][attr_name], below)
             ELSE below

RECURSIVE MergeFrom(_, _, _)
\* res after the loop has gone through reversed(mro)[i..]
MergeFrom(cls, attr_name, i) ==
    IF i > Len(Mro[cls]) THEN <<>>
    ELSE LET c == Mro[cls][i]
             below == MergeFrom(cls, attr_name, i + 1)
         IN  IF attr_name \in DOMAIN ClassVars[c]
             THEN Update(below, ClassVars[c][attr_name])
             ELSE below

\* get_cumulative_dict_attribute(obj, attr_name), obj an instance of cls
get_cumulative_dict_attribute(cls, attr_name) == MergeFrom(cls, attr_name, 1)

-----------------------------------------------------------------------------
(* BaseFeature *)

\* the property that fpo.addProperty(Type, name, Group, Doc, 0),
\* setattr(fpo, name, Default) and fpo.setEditorMode(name, EditorMode) make
PropertyFrom(spec) ==
    [Type |-> spec.Type, Group |-> spec.Group, Value |-> spec.Default,
     EditorMode |-> spec.EditorMode]

\* BaseFeature._set_properties for an instance of cls.  The loop goes through
\* the missing names in the order of a Python set, which is any order; it
\* looks each name up in self.PROPERTIES and raises KeyError at the first one
\* that is not there.  added is the set of names it got through before that.
\* The on_set_properties_cb hook does nothing.
_set_properties(cls, fpo, added) ==
    LET properties == get_cumulative_dict_attribute(cls, "PROPERTIES")
        missing == DOMAIN properties \ DOMAIN fpo.Properties
        own == GetAttr(cls, "PROPERTIES")
        known == missing \cap DOMAIN own
        done == IF missing \subseteq DOMAIN own THEN known ELSE added
    IN  [raised |-> IF missing \subseteq DOMAIN own THEN "none" ELSE "KeyError",
         fpo |-> [[fpo EXCEPT !.Proxy = cls] EXCEPT !.Properties =
                    [k \in DOMAIN fpo.Properties \cup done |->
                        IF k \in done THEN PropertyFrom(own[k])
                        ELSE fpo.Properties[k]]]]

\* the orders in which _set_properties may go through the missing names,
\* each given by the set of names added before the first failure
AddedBeforeFailure(cls, fpo) ==
    SUBSET ((DOMAIN get_cumulative_dict_attribute(cls, "PROPERTIES")
                \ DOMAIN fpo.Properties)
            \cap DOMAIN GetAttr(cls, "PROPERTIES"))

\* doc.addObject("App::FeaturePython", _type): the new object
NewObject(docs, doc, _type) ==
    [Name |-> _type, Index |-> Len(docs[doc]) + 1, Proxy |-> "None",
     ViewProxy |-> "None",
     Properties |-> [k \in FreshProperties |->
                        [Type |-> "App::Property", Group |-> "Base",
                         Value |-> "", EditorMode |-> 0]]]

PutLast(docs, doc, fpo) ==
    [docs EXCEPT ![doc] = Append(SubSeq(@, 1, Len(@) - 1), fpo)]

\* BaseFeature.create(document) called on cls, from the documents docs and
\* the active document act.  The pre_create_cb and on_create_cb hooks do
\* nothing.  The result: the exception raised ("none" on return), the value
\* returned, the documents and the documents recomputed.
create(cls, document, docs, act, added) ==
    LET doc == IF document # NoDocument THEN document ELSE act
        _type == IF GetAttr(cls, "TYPE") # "" THEN GetAttr(cls, "TYPE") ELSE cls
        fpo == NewObject(docs, doc, _type)
        withObject == [docs EXCEPT ![doc] = Append(@, fpo)]
        obj == _set_properties(cls, fpo, added)
        withProxy == PutLast(withObject, doc, obj.fpo)
        viewp == GetAttr(cls, "VIEWPROVIDER")
        withView == PutLast(withObject, doc, [obj.fpo EXCEPT !.ViewProxy = viewp])
    IN  IF doc = NoDocument
        THEN [raised |-> "AssertionError", documents |-> docs,
              recomputed |-> <<>>, value |-> <<>>]
        ELSE IF obj.raised # "none"
        THEN [raised |-> obj.raised, documents |-> withProxy,
              recomputed |-> <<>>, value |-> <<>>]
        ELSE IF viewp \notin NamespaceAttrs
        THEN [raised |-> "ValueError", documents |-> withProxy,
              recomputed |-> <<>>, value |-> <<>>]
        ELSE IF act = NoDocument
        THEN [raised |-> "AttributeError", documents |-> withView,
              recomputed |-> <<>>, value |-> <<>>]
        ELSE [raised |-> "none", documents |-> withView,
              recomputed |-> <<act>>,
              value |-> [obj |-> cls, fpo |-> <<doc, fpo.Index>>,
                         viewp |-> viewp]]

InitBase ==
    /\ prefs = NoPreferences
    /\ call = [op |-> "none"]
    /\ pc = "done"
    /\ ret = <<>>
    /\ console = <<>>
    /\ executed = <<>>
    /\ documents = [d \in DocumentNames |-> <<>>]
    /\ active \in DocumentNames \cup {NoDocument}
    /\ recomputed = <<>>
    /\ handled = <<>>

Create ==
    \E cls \in FeatureClasses, document \in DocumentNames \cup {NoDocument} :
        LET doc == IF document # NoDocument THEN document ELSE active
        IN  /\ doc # NoDocument => Len(documents[doc]) < MaxObjects
            /\ \E added \in (IF doc = NoDocument THEN {{}}
                             ELSE AddedBeforeFailure(
                                      cls, NewObject(documents, doc, cls))) :
                 LET r == create(cls, document, documents, active, added)
                 IN  /\ call' = [op |-> "create", cls |-> cls,
                                 document |-> document]
                     /\ ret' = [raised |-> r.raised, value |-> r.value]
                     /\ documents' = r.documents
                     /\ recomputed' = r.recomputed
                     /\ UNCHANGED <<prefs, pc, console, executed, active,
                                    handled>>

NextBase == Create

SpecBase == InitBase /\ [][NextBase]_vars

-----------------------------------------------------------------------------
(* The handlers of base.py that the host calls on one object: the feature  *)
(* proxy's __init__ and onDocumentRestored, point_at, and the view         *)
(* provider's onChanged and updateData.  The object is the first one of    *)
(* Doc1; it and the arguments are drawn initially, the step is the call.   *)

\* a value a user may have given the property in place of its default
EditedValue(name) ==
    CASE name = "Power" -> 250
      [] name = "Projection" -> "Orthographic"
      [] name = "Placement" ->
            [Base |-> Vector(10, 0, 0), Rotation |-> RotationAbout("X", 1)]

\* the objects a document may hold for class cls when it is restored: a
\* fresh object plus any of the class's properties, each with its default
\* or with an edited value and editor mode
RestoredObjects(cls) ==
    LET properties == get_cumulative_dict_attribute(cls, "PROPERTIES")
        fresh == NewObject([d \in DocumentNames |-> <<>>], "Doc1", cls)
    IN  {[fresh EXCEPT !.Properties =
            [k \in FreshProperties \cup present |->
                IF k \in FreshProperties THEN fresh.Properties[k]
                ELSE IF k \in edited
                THEN [PropertyFrom(properties[k]) EXCEPT
                        !.Value = EditedValue(k), !.EditorMode = 1]
                ELSE PropertyFrom(properties[k])]] :
         present \in SUBSET DOMAIN properties,
         edited \in SUBSET DOMAIN properties}

InitCalls ==
    {[op |-> "__init__", cls |-> cls,
      fpo |-> NewObject([d \in DocumentNames |-> <<>>], "Doc1", cls)] :
     cls \in FeatureClasses}

RestoreCalls ==
    UNION {[op : {"onDocumentRestored"}, cls : {cls}, fpo : RestoredObjects(cls)] :
           cls \in FeatureClasses}

\* the step of __init__ and of onDocumentRestored: both are _set_properties
SetProperties ==
    /\ pc = "ready"
    /\ \E added \in AddedBeforeFailure(call.cls, documents["Doc1"][1]) :
         LET r == _set_properties(call.cls, documents["Doc1"][1], added)
         IN  /\ ret' = [raised |-> r.raised, value |-> <<>>]
             /\ documents' = [documents EXCEPT !["Doc1"] = <<r.fpo>>]
    /\ pc' = "done"
    /\ UNCHANGED <<prefs, call, console, executed, active, recomputed, handled>>

\* BaseFeature.__init__(fpo)
Init__ ==
    /\ call.op = "__init__"
    /\ SetProperties

\* BaseFeature.onDocumentRestored(fpo)
OnDocumentRestored ==
    /\ call.op = "onDocumentRestored"
    /\ SetProperties

\* PointableFeatureMixin.point_at(point) on an object with the given
\* placement.  base.py never imports or defines degrees, so the line
\* angle = degrees(...) raises NameError; the rotation is assigned only
\* after it.
point_at(placement, point) ==
    LET current_target == multVec(placement.Rotation, Vector(0, 0, -10))
        base == placement.Base
        new_target == Vector(point.x - base.x, point.y - base.y,
                             point.z - base.z)
        axis == cross(current_target, new_target)
    IN  IF axis = Vector(0, 0, 0)
        THEN [raised |-> "none", Placement |-> placement]
        ELSE [raised |-> "NameError", Placement |-> placement]

PointBases == {Vector(0, 0, 0), Vector(10, 0, 0)}
PointTargets ==
    {Vector(0, 0, -10), Vector(0, 0, 10), Vector(10, 0, 0), Vector(0, 20, 0),
     Vector(10, 10, 0), Vector(10, 0, -30)}

\* a Pointer object whose Placement property has the given value
PointerAt(placement) ==
    LET fresh == NewObject([d \in DocumentNames |-> <<>>], "Doc1", "Pointer")
        spec == GetAttr("Pointer", "PROPERTIES")["Placement"]
    IN  [fresh EXCEPT !.Proxy = "Pointer", !.Properties =
            [k \in FreshProperties \cup {"Placement"} |->
                IF k = "Placement"
                THEN [PropertyFrom(spec) EXCEPT !.Value = placement]
                ELSE fresh.Properties[k]]]

PointAtCalls ==
    {[op |-> "point_at", cls |-> "Pointer", point |-> point,
      fpo |-> PointerAt([Base |-> b, Rotation |-> r])] :
     point \in PointTargets, b \in PointBases, r \in Rotations}

PointAt ==
    /\ pc = "ready" /\ call.op = "point_at"
    /\ LET fpo == documents["Doc1"][1]
           r == point_at(fpo.Properties["Placement"].Value, call.point)
       IN  /\ ret' = [raised |-> r.raised, value |-> <<>>]
           /\ documents' =
                [documents EXCEPT !["Doc1"] =
                    <<[fpo EXCEPT !.Properties["Placement"].Value = r.Placement]>>]
    /\ pc' = "done"
    /\ UNCHANGED <<prefs, call, console, executed, active, recomputed, handled>>

\* the dispatch of onChanged and updateData for an instance of cls: the
\* merged mapping named attr_name is looked up for prop (a KeyError is
\* silently ignored), the method it names is fetched and called with the
\* passed object.  The lru_cache on the mapping returns what the merge
\* returned the first time, and class attributes do not change.
dispatch(cls, attr_name, obj, prop) ==
    LET mapping == get_cumulative_dict_attribute(cls, attr_name)
    IN  IF prop \notin DOMAIN mapping
        THEN [raised |-> "none", handled |-> <<>>]
        ELSE IF ~HasMethod(cls, mapping[prop])
        THEN [raised |-> "AttributeError", handled |-> <<>>]
        ELSE [raised |-> "none",
              handled |-> <<[method |-> mapping[prop], self |-> cls,
                             arg |-> obj]>>]

\* BaseViewProvider.onChanged(vpdo, prop)
onChanged(cls, vpdo, prop) == dispatch(cls, "ON_CHANGED", vpdo, prop)

\* BaseViewProvider.updateData(fpo, prop)
updateData(cls, fpo, prop) == dispatch(cls, "ON_UPDATE", fpo, prop)

PropertyNames ==
    {"Visibility", "ShapeColor", "Power", "Location", "Placement", "Label"}
PassedObjects == {"Doc1.PointLight", "Doc2.Target"}

DispatchCalls ==
    [op : {"onChanged", "updateData"}, cls : ViewProviderClasses,
     prop : PropertyNames, obj : PassedObjects]

Dispatched(r) ==
    /\ ret' = [raised |-> r.raised, value |-> <<>>]
    /\ handled' = r.handled
    /\ pc' = "done"
    /\ UNCHANGED <<prefs, call, console, executed, documents, active,
                   recomputed>>

OnChanged ==
    /\ pc = "ready" /\ call.op = "onChanged"
    /\ Dispatched(onChanged(call.cls, call.obj, call.prop))

UpdateData ==
    /\ pc = "ready" /\ call.op = "updateData"
    /\ Dispatched(updateData(call.cls, call.obj, call.prop))

InitHandlers ==
    /\ call \in InitCalls \cup RestoreCalls \cup PointAtCalls \cup DispatchCalls
    /\ documents =
         [d \in DocumentNames |->
            IF d = "Doc1" /\ call.op \notin {"onChanged", "updateData"}
            THEN <<call.fpo>> ELSE <<>>]
    /\ prefs = NoPreferences
    /\ pc = "ready"
    /\ ret = <<>>
    /\ console = <<>>
    /\ executed = <<>>
    /\ active = "Doc1"
    /\ recomputed = <<>>
    /\ handled = <<>>

NextHandlers ==
    \/ Init__
    \/ OnDocumentRestored
    \/ PointAt
    \/ OnChanged
    \/ UpdateData

SpecHandlers == InitHandlers /\ [][NextHandlers]_vars

-----------------------------------------------------------------------------
(* Claims about Cycles.render *)

RenderCalled == pc = "done" /\ call.op = "render"
RendererLocated == GetString(prefs, "CyclesPath") # <<>>

\* C1: with an empty CyclesPath preference, render returns the empty string,
\* runs no external command and reports the error on the console, whatever
\* its arguments and the other preferences are.
C1_EmptyPathNoInvocation ==
    (RenderCalled /\ ~RendererLocated) =>
        /\ ret = <<>>
        /\ executed = <<>>
        /\ console = <<ErrNoRenderer>>

C1_Witness ==
    /\ RenderCalled /\ ~RendererLocated
    /\ call.prefix # <<>> /\ ~call.external
    /\ GetString(prefs, "CyclesParameters") # <<>>
    /\ ret = <<>> /\ executed = <<>>

\* the words render's command must consist of after the prefix and the path
RenderTail ==
    Tokens(GetString(prefs, "CyclesParameters"))
        \o Tokens(OptOutput) \o Tokens(call.output)
        \o (IF call.external THEN <<>> ELSE Tokens(OptBackground))
        \o Tokens(OptWidth) \o <<StrInt(call.width)>>
        \o Tokens(OptHeight) \o <<StrInt(call.height)>>
        \o Tokens(call.project.PageResult)

\* C2: with a non-empty CyclesPath, render runs exactly one command, whose
\* words are, in this order: the optional (stored) prefix, the executable
\* path, the stored extra parameters, --output <output>, --background exactly
\* when external is false, --width <width>, --height <height>, and last the
\* project's scene file.
C2_CommandTokens ==
    (RenderCalled /\ RendererLocated) =>
        /\ Len(executed) = 1
        /\ Tokens(executed[1]) =
              Tokens(GetString(prefs, "Prefix"))
                \o Tokens(GetString(prefs, "CyclesPath")) \o RenderTail

C2_Witness ==
    /\ RenderCalled /\ RendererLocated
    /\ GetString(prefs, "Prefix") # <<>>
    /\ GetString(prefs, "CyclesParameters") # <<>>
    /\ ~call.external /\ call.width # call.height
    /\ Len(executed) = 1

\* C3: the prefix argument of render is the prefix of the executed command:
\* non-empty, it stands right before the executable path; empty, the command
\* starts with the executable path.
C3_PrefixArgumentUsed ==
    (RenderCalled /\ RendererLocated) =>
        /\ Len(executed) = 1
        /\ Tokens(executed[1]) =
              Tokens(call.prefix)
                \o Tokens(GetString(prefs, "CyclesPath")) \o RenderTail

\* C4: once the command has been run, render returns its output argument
\* whatever the exit status, and reports no error.
C4_ReturnsOutput ==
    (RenderCalled /\ RendererLocated) =>
        /\ ret = call.output
        /\ \A i \in 1..Len(console) : console[i].kind # "Error"

C4_Witness ==
    /\ RenderCalled /\ RendererLocated
    /\ call.status # 0
    /\ Len(executed) = 1
    /\ ret = call.output

-----------------------------------------------------------------------------
(* Reading scene text back *)

DigitValue(c) == CHOOSE d \in 0..9 : Digits[d + 1] = c

RECURSIVE ReadNat(_)
\* the number a string of decimal digits denotes
ReadNat(s) ==
    IF Len(s) = 1 THEN DigitValue(s[1])
    ELSE 10 * ReadNat(SubSeq(s, 1, Len(s) - 1)) + DigitValue(s[Len(s)])

ReadInt(s) == IF s[1] = "-" THEN -ReadNat(Tail(s)) ELSE ReadNat(s)

\* the float (in tenths) a text "[-]ddd.d" denotes
ReadFloat(s) ==
    LET neg == s[1] = "-"
        body == IF neg THEN Tail(s) ELSE s
        dot == CHOOSE i \in 1..Len(body) : body[i] = "."
        tenths == 10 * ReadNat(SubSeq(body, 1, dot - 1))
                    + ReadNat(SubSeq(body, dot + 1, Len(body)))
    IN  IF neg THEN -tenths ELSE tenths

\* the vector a text "x y z" denotes
ReadVector(s) ==
    LET t == Tokens(s)
    IN  Vector(ReadFloat(t[1]), ReadFloat(t[2]), ReadFloat(t[3]))

Range(q) == {q[i] : i \in 1..Len(q)}

\* the children of element e that have the given tag
Tagged(e, tag) == SelectSeq(e.children, LAMBDA k : k.tag = tag)

\* the (from, to) pairs of the connect elements of a shader
Connections(shader) ==
    {<<k.attrs.from, k.attrs.to>> : k \in Range(Tagged(shader, "connect"))}

-----------------------------------------------------------------------------
(* Claims about the scene writers *)

ObjectWritten == pc = "done" /\ call.op = "write_object"
ObjectName == call.viewobj.Name

\* C5: write_object picks the shader branch by the threshold opacity < 1.
\* At opacity 1.0 there is no transparent_bsdf and no mix_closure and the
\* diffuse term is connected directly to the output surface.  At every
\* opacity below 1.0 there is exactly one mix_closure, its fac is the
\* opacity, its closure inputs come from the transparent and the diffuse
\* term, and only the mix is connected to the output surface.  The diffuse
\* term is there in both branches.
C5_OpacityThreshold ==
    ObjectWritten =>
        LET shader == ret[2]
            mix == Tagged(shader, "mix_closure")
            toSurface == {c \in Connections(shader) : c[2] = "output surface"}
        IN  /\ shader.tag = "shader"
            /\ Len(Tagged(shader, "diffuse_bsdf")) = 1
            /\ Tagged(shader, "diffuse_bsdf")[1].attrs.name = ObjectName \o "_bsdf"
            /\ call.alpha = 10 =>
                 /\ Len(Tagged(shader, "transparent_bsdf")) = 0
                 /\ Len(mix) = 0
                 /\ Connections(shader) =
                      {<<ObjectName \o "_bsdf bsdf", "output surface">>}
            /\ call.alpha < 10 =>
                 /\ Len(mix) = 1
                 /\ mix[1].attrs.name = ObjectName \o "_mix"
                 /\ ReadFloat(mix[1].attrs.fac) = call.alpha
                 /\ Len(Tagged(shader, "transparent_bsdf")) = 1
                 /\ Tagged(shader, "transparent_bsdf")[1].attrs.name
                      = ObjectName \o "_trans"
                 /\ <<ObjectName \o "_trans bsdf", ObjectName \o "_mix closure1">>
                      \in Connections(shader)
                 /\ <<ObjectName \o "_bsdf bsdf", ObjectName \o "_mix closure2">>
                      \in Connections(shader)
                 /\ toSurface = {<<ObjectName \o "_mix closure", "output surface">>}

C5_Witness ==
    /\ ObjectWritten
    /\ call.alpha = 5
    /\ Len(Tagged(ret[2], "mix_closure")) = 1
    /\ Len(call.mesh.Topology[2]) > 0

LightWritten ==
    pc = "done" /\ call.op \in {"write_pointlight", "write_arealight"}

\* C6: the emission strength written by write_pointlight and by
\* write_arealight is the input power times 100, for every power >= 0.
C6_StrengthIsPowerTimes100 ==
    LightWritten =>
        LET emission == Tagged(ret[2], "emission")
        IN  /\ Len(emission) = 1
            /\ ReadFloat(emission[1].attrs.strength) = call.power * 100

C6_Witness ==
    /\ pc = "done" /\ call.op = "write_arealight"
    /\ call.power = 25
    /\ Tagged(ret[2], "emission")[1].attrs.strength = <<"2", "5", "0", ".", "0">>

ArealightWritten == pc = "done" /\ call.op = "write_arealight"

\* C7: write_arealight emits axisu = R(1,0,0), axisv = R(0,1,0) and
\* dir = axisu x axisv (in that order) for the placement rotation R; so dir
\* is R(0,0,1): (0,0,1) for the identity and (0,-1,0) for a quarter turn
\* about X.
C7_AreaLightDirection ==
    ArealightWritten =>
        LET light == ret[3].children[1]
            R == call.pos.Rotation
            u == ReadVector(light.attrs.axisu)
            v == ReadVector(light.attrs.axisv)
            d == ReadVector(light.attrs.dir)
        IN  /\ light.tag = "light"
            /\ u = multVec(R, Vector(10, 0, 0))
            /\ v = multVec(R, Vector(0, 10, 0))
            /\ d = Vector((u.y * v.z - u.z * v.y) \div 10,
                          (u.z * v.x - u.x * v.z) \div 10,
                          (u.x * v.y - u.y * v.x) \div 10)
            /\ d = multVec(R, Vector(0, 0, 10))
            /\ R = RotationAbout("Z", 0) => d = Vector(0, 0, 10)
            /\ R = RotationAbout("X", 1) => d = Vector(0, -10, 0)

C7_Witness ==
    /\ ArealightWritten
    /\ call.pos.Rotation = RotationAbout("X", 1)
    /\ ret[3].children[1].attrs.dir
         = <<"0", ".", "0", " ", "-", "1", ".", "0", " ", "0", ".", "0">>

\* C8: for a mesh of V vertices and F triangles, write_object's mesh element
\* lists in P exactly the V coordinate triples in vertex order, in nverts
\* exactly F entries "3", and in verts exactly the F index triples in face
\* order, unchanged; the single face (0,1,2) gives verts "0 1 2", nverts "3".
C8_MeshLists ==
    ObjectWritten =>
        LET mesh == ret[3].children[1]
            vs == call.mesh.Topology[1]
            fs == call.mesh.Topology[2]
            P == Tokens(mesh.attrs.P)
            nverts == Tokens(mesh.attrs.nverts)
            verts == Tokens(mesh.attrs.verts)
        IN  /\ mesh.tag = "mesh"
            /\ Len(P) = 3 * Len(vs)
            /\ \A i \in 1..Len(vs) :
                 Vector(ReadFloat(P[3 * i - 2]), ReadFloat(P[3 * i - 1]),
                        ReadFloat(P[3 * i])) = vs[i]
            /\ nverts = [i \in 1..Len(fs) |-> <<"3">>]
            /\ Len(verts) = 3 * Len(fs)
            /\ \A i \in 1..Len(fs) : \A j \in 1..3 :
                 ReadInt(verts[3 * (i - 1) + j]) = fs[i][j]
            /\ fs = <<<<0, 1, 2>>>> =>
                 /\ mesh.attrs.verts = <<"0", " ", "1", " ", "2">>
                 /\ mesh.attrs.nverts = <<"3">>

C8_Witness ==
    /\ ObjectWritten
    /\ Len(call.mesh.Topology[1]) = 3
    /\ call.mesh.Topology[2] = <<<<0, 1, 2>>, <<0, 2, 1>>>>
    /\ ret[3].children[1].attrs.verts
         = <<"0", " ", "1", " ", "2", " ", " ", "0", " ", "2", " ", "1">>

CameraWritten == pc = "done" /\ call.op = "write_camera"

\* C9: write_camera's rotate attribute is the rotation angle in degrees
\* (pi/2 gives 90) followed by the axis components unchanged; translate is
\* the input position; scale is the constant 1 1 -1.
C9_CameraTransform ==
    CameraWritten =>
        LET transform == ret[2]
            rotate == Tokens(transform.attrs.rotate)
        IN  /\ transform.tag = "transform"
            /\ Len(rotate) = 4
            \* degrees * pi / 180 = radians, the angle being Angle * pi / 12
            /\ ReadFloat(rotate[1]) * 12 = call.rot.Angle * 180 * 10
            /\ call.rot.Angle = 6 => ReadFloat(rotate[1]) = 900
            /\ Vector(ReadFloat(rotate[2]), ReadFloat(rotate[3]),
                      ReadFloat(rotate[4])) = call.rot.Axis
            /\ ReadVector(transform.attrs.translate) = call.pos
            /\ Tokens(transform.attrs.scale) = <<<<"1">>, <<"1">>, <<"-", "1">>>>

C9_Witness ==
    /\ CameraWritten
    /\ call.rot.Angle = 6
    /\ call.rot.Axis = Vector(6, -8, 0)
    /\ Tokens(ret[2].attrs.rotate)[1] = <<"9", "0", ".", "0">>

-----------------------------------------------------------------------------
(* Claims about BaseFeature *)

\* C10: create succeeds whenever a document is passed or a document is
\* active: it adds exactly one object to the passed document, or else to the
\* active one, and returns the triple (object, FeaturePython object, view
\* provider).  It fails, by its assertion, only when no document is passed
\* and none is active, and then adds no object to any document.
C10_CreateSucceeds ==
    [][call'.op = "create" =>
        LET target == IF call'.document # NoDocument THEN call'.document
                      ELSE active
        IN  /\ target # NoDocument =>
                 /\ ret'.raised = "none"
                 /\ Len(documents'[target]) = Len(documents[target]) + 1
                 /\ \A d \in DocumentNames \ {target} :
                      documents'[d] = documents[d]
                 /\ ret'.value.obj = call'.cls
                 /\ ret'.value.fpo = <<target, Len(documents'[target])>>
                 /\ ret'.value.viewp = GetAttr(call'.cls, "VIEWPROVIDER")
            /\ target = NoDocument =>
                 /\ ret'.raised = "AssertionError"
                 /\ documents' = documents
            /\ ret'.raised # "none" => target = NoDocument
    ]_vars

-----------------------------------------------------------------------------
(* Claims about the handlers of base.py *)

\* the positions in cls's MRO of the classes whose dictionary attribute
\* attr_name has an entry for key
Declaring(cls, attr_name, key) ==
    {i \in 1..Len(Mro[cls]) :
        /\ attr_name \in DOMAIN ClassVars[Mro[cls][i]]
        /\ key \in DOMAIN ClassVars[Mro[cls][i]][attr_name]}

\* the entry for key of the most derived class that has one
Declared(cls, attr_name, key) ==
    LET i == CHOOSE i \in Declaring(cls, attr_name, key) :
                \A j \in Declaring(cls, attr_name, key) : i <= j
    IN  ClassVars[Mro[cls][i]][attr_name][key]

\* every name some class of the hierarchy declares in attr_name
DeclaredKeys(cls, attr_name) ==
    UNION {DOMAIN ClassVars[Mro[cls][i]][attr_name] :
           i \in {j \in 1..Len(Mro[cls]) :
                    attr_name \in DOMAIN ClassVars[Mro[cls][j]]}}

\* C11: after __init__(fpo) or onDocumentRestored(fpo), in a hierarchy that
\* declares PROPERTIES in more than one class, every property name of the
\* merged PROPERTIES is on fpo: a name that was missing has been added with
\* its declared type, group, default and editor mode, a name that was there
\* is left as it was.
C11_MergedPropertiesSet ==
    [][(/\ call.op \in {"__init__", "onDocumentRestored"}
        /\ pc = "ready" /\ pc' = "done"
        /\ Cardinality({i \in 1..Len(Mro[call.cls]) :
                          "PROPERTIES" \in DOMAIN ClassVars[Mro[call.cls][i]]}) > 1)
       =>
        LET before == documents["Doc1"][1].Properties
            after == documents'["Doc1"][1].Properties
        IN  /\ ret'.raised = "none"
            /\ \A name \in DeclaredKeys(call.cls, "PROPERTIES") :
                 /\ name \in DOMAIN after
                 /\ name \in DOMAIN before => after[name] = before[name]
                 /\ name \notin DOMAIN before =>
                      after[name] =
                        PropertyFrom(Declared(call.cls, "PROPERTIES", name))
    ]_vars

Dot(a, b) == a.x * b.x + a.y * b.y + a.z * b.z

\* vector a has the direction of vector b
SameDirection(a, b) ==
    /\ a.y * b.z - a.z * b.y = 0
    /\ a.z * b.x - a.x * b.z = 0
    /\ a.x * b.y - a.y * b.x = 0
    /\ Dot(a, b) > 0

\* C12: after point_at(point), for a point other than the object's base, the
\* object's pointing direction (its rotation applied to (0,0,-1)) has the
\* direction of point - base, also when the target lies exactly opposite;
\* the base is unchanged, and the rotation is unchanged only when the
\* object already pointed at the target.
C12_PointsAtTarget ==
    (/\ pc = "done" /\ call.op = "point_at"
     /\ call.point # call.fpo.Properties["Placement"].Value.Base)
    =>
        LET before == call.fpo.Properties["Placement"].Value
            after == documents["Doc1"][1].Properties["Placement"].Value
            target == Vector(call.point.x - before.Base.x,
                             call.point.y - before.Base.y,
                             call.point.z - before.Base.z)
        IN  /\ ret.raised = "none"
            /\ SameDirection(multVec(after.Rotation, Vector(0, 0, -10)), target)
            /\ after.Base = before.Base
            /\ after.Rotation = before.Rotation =>
                 SameDirection(multVec(before.Rotation, Vector(0, 0, -10)),
                               target)

ViewProviderCalled == pc = "done" /\ call.op \in {"onChanged", "updateData"}

\* C13: onChanged and updateData dispatch on the ON_CHANGED (resp. ON_UPDATE)
\* mapping merged over the class hierarchy, where the entry of a subclass
\* overrides that of a base class: when prop has an entry, exactly one
\* handler, the method that entry names, is called once with the passed
\* object; when it has none, no handler is called and no error is raised.
C13_Dispatch ==
    ViewProviderCalled =>
        LET attr_name == IF call.op = "onChanged" THEN "ON_CHANGED"
                         ELSE "ON_UPDATE"
        IN  /\ ret.raised = "none"
            /\ IF Declaring(call.cls, attr_name, call.prop) = {}
               THEN handled = <<>>
               ELSE /\ Len(handled) = 1
                    /\ handled[1].method = Declared(call.cls, attr_name, call.prop)
                    /\ handled[1].self = call.cls
                    /\ handled[1].arg = call.obj

C13_Witness ==
    /\ ViewProviderCalled
    /\ call.op = "onChanged"
    /\ call.cls = "ViewProviderPointLight"
    /\ call.prop = "Visibility"
    /\ Cardinality(Declaring(call.cls, "ON_CHANGED", call.prop)) = 2
    /\ handled = <<[method |-> "on_point_visibility",
                    self |-> "ViewProviderPointLight", arg |-> call.obj]>>

====
